---- MODULE Spec2Model ----
(***************************************************************************)
(* Model of the deneme-webapp finance dashboard (src/src/App.tsx): the two *)
(* in-memory collections, the derived aggregates, the form handlers, the   *)
(* effects that write the collections through to localStorage, and the     *)
(* startup that reads them back.                                           *)
(*                                                                         *)
(* A text that users type is a sequence of characters, and the notes of an *)
(* account are a sequence of lines, each a sequence of text pieces.        *)
(* Abstractions: money amounts are integers; an instant is a whole number   *)
(* of hours since the UTC midnight of day 0, a picked date is a day number  *)
(* and stands for the UTC midnight of that day; the clock carries, next to  *)
(* the instant, the hours by which a change of the zone's offset displaces  *)
(* the local time of 30 days earlier; a stored text is the JSON value it    *)
(* parses to, tagged with its kind, and, where the conversion between a     *)
(* value and its text is what is examined, the sequence of the tokens of    *)
(* the text; an id is a number, the empty id '' being 0.  The contents of   *)
(* the form fields are inputs of the submit, not state.  Account fields     *)
(* bankName, currency and createdAt are carried by no operation of the      *)
(* model and are left out.                                                  *)
(***************************************************************************)
EXTENDS Integers, Sequences, FiniteSets, TLC

VARIABLES
    pc,                 \* "idle", "effects" (rendered, effects pending), "boot", "crashed"
    theme,              \* App state: theme
    accounts,           \* App state: accounts (newest first)
    transactions,       \* App state: transactions (newest first)
    recentTransactions, \* App: value held by useMemo(..., [transactions])
    formAccountId,      \* TransactionsSection state: form.accountId
    filters,            \* TransactionsSection state: filters
    accountError,       \* AccountsSection state: error
    transactionError,   \* TransactionsSection state: error
    storage,            \* localStorage: key -> stored value
    hasStorage,         \* typeof localStorage !== 'undefined'
    dirty,              \* App state whose effect dependencies changed in the last render
    now,                \* the clock: [instant, shift]
    nextId,             \* the next value crypto.randomUUID() returns
    created             \* submits that drew an id

vars == <<pc, theme, accounts, transactions, recentTransactions, formAccountId,
          filters, accountError, transactionError, storage, hasStorage, dirty,
          now, nextId, created>>

-----------------------------------------------------------------------------
(* Bounds of the model *)

MaxCreated == 1

MaxId == 10

MaxTicks == 1

MaxLen == 3

(* Program constants *)

WindowDays == 30

\* the hours of a day
DayLength == 24

\* The offsets from UTC that the zones of the runtime have had lie between
\* -15:56 and +15:14, so the offset of a zone changes by less than 32 hours
\* between two instants.
MaxZoneChange == 32

\* windowStart keeps the local date and time of day: where the offset of the
\* zone differs between now and 30 days earlier, windowStart is later or
\* earlier than 30 * 24 hours ago by that difference: an hour (daylight
\* saving), two or three hours (Antarctica/Troll, Antarctica/Casey), a day (a
\* zone that crosses the date line), or any other change of a zone.  Every
\* instant of the model is a whole hour, and for such instants a displacement
\* that is no whole number of hours selects the same transactions as the next
\* whole number above it.
DstShifts == (0 - MaxZoneChange)..MaxZoneChange

\* new Date(): the instant, and the displacement of the local day 30 days back
Clock(instant, shift) == [instant |-> instant, shift |-> shift]

\* the first visit happens at noon (UTC) of day 0
StartClock == Clock(DayLength \div 2, 0)

-----------------------------------------------------------------------------
(* Texts and numbers typed into forms *)

RECURSIVE TrimStart(_)
TrimStart(s) ==
    IF s # <<>> /\ Head(s) = " " THEN TrimStart(Tail(s)) ELSE s

RECURSIVE TrimEnd(_)
TrimEnd(s) ==
    IF s # <<>> /\ s[Len(s)] = " " THEN TrimEnd(SubSeq(s, 1, Len(s) - 1)) ELSE s

\* String.prototype.trim
Trim(s) == TrimEnd(TrimStart(s))

\* The value of an <input>: '' | text that is no number | a number's digits
EmptyText == [k |-> "empty", n |-> 0]
NotNumeric == [k |-> "nan", n |-> 0]
NumText(n) == [k |-> "num", n |-> n]

\* A JavaScript number: NaN or an integer
NaN == [nan |-> TRUE, n |-> 0]
Num(n) == [nan |-> FALSE, n |-> n]

\* Number(text): Number('') is 0
Number(text) ==
    CASE text.k = "empty" -> Num(0)
      [] text.k = "nan" -> NaN
      [] OTHER -> Num(text.n)

\* value.toString() for a number
NumberToString(x) == IF x.nan THEN NotNumeric ELSE NumText(x.n)

\* Math.max(0, x): NaN when x is NaN
MathMax0(x) == IF x.nan THEN NaN ELSE Num(IF x.n > 0 THEN x.n ELSE 0)

\* Math.abs(x)
MathAbs(x) == IF x.nan THEN NaN ELSE Num(IF x.n < 0 THEN 0 - x.n ELSE x.n)

\* x || 0 for a number x: NaN and 0 are falsy
OrZero(x) == IF x.nan THEN 0 ELSE x.n

Max(a, b) == IF a > b THEN a ELSE b

-----------------------------------------------------------------------------
(* Stored values: what localStorage.getItem and JSON.parse make of a key *)

JMissing == [t |-> "missing", v |-> <<>>]    \* getItem returns null
JDenied == [t |-> "denied", v |-> <<>>]      \* getItem throws
JEmpty == [t |-> "empty", v |-> <<>>]        \* the stored text is ''
JBad == [t |-> "bad", v |-> <<>>]            \* JSON.parse throws
JNull == [t |-> "null", v |-> <<>>]          \* 'null'
JNum(n) == [t |-> "num", v |-> <<n>>]        \* a number
JStr(s) == [t |-> "str", v |-> s]            \* a string, s its characters
JObj == [t |-> "obj", v |-> <<>>]            \* an object with no length property
JArr(s) == [t |-> "arr", v |-> s]            \* an array

\* JSON.stringify(value) for an array of records, as stored text: where only
\* the value that the text parses to matters, the text is held as that value
Stringify(value) == JArr(value)

\* A JSON text token by token: a punctuator, a number literal (its digits,
\* after a minus sign when the number is below 0), a string literal (what
\* stands between its quotes), null.  A string is a sequence of pieces, a
\* piece being one character or a run of characters; the characters that JSON
\* escapes are pieces of their own.
Punctuator(c) == [k |-> "punct", s |-> <<c>>]

\* an object: its members in insertion order, each a key and a value
Member(key, value) == [key |-> key, value |-> value]

JObject(members) == [t |-> "obj", v |-> members]

\* QuoteJSONString: the quotation mark, the backslash and the line feed of a
\* string are written as escapes
QuoteChar_RawLineFeed(c) ==
    CASE c = "\"" -> "\\\""
      [] c = "\\" -> "\\\\"
      [] OTHER -> c

QuoteChar(c) ==
    CASE c = "\"" -> "\\\""
      [] c = "\\" -> "\\\\"
      [] c = "\n" -> "\\n"
      [] OTHER -> c

RECURSIVE JSONStringify(_)
\* JSON.stringify(value): the tokens of the text.  The elements of an array
\* and the members of an object (key : value) are separated by commas.
JSONStringify(value) ==
    LET RECURSIVE NumberDigits(_)
        RECURSIVE SerializeElements(_)
        RECURSIVE SerializeMembers(_)
        NumberDigits(n) ==
            IF n < 10 THEN <<ToString(n)>>
            ELSE Append(NumberDigits(n \div 10), ToString(n % 10))
        NumberLiteral(n) ==
            [k |-> "num",
             s |-> IF n < 0 THEN <<"-">> \o NumberDigits(0 - n) ELSE NumberDigits(n)]
        QuoteJSONString(chars) ==
            [k |-> "str", s |-> [i \in 1..Len(chars) |-> QuoteChar(chars[i])]]
        SerializeElements(elements) ==
            IF Len(elements) = 0 THEN <<>>
            ELSE IF Len(elements) = 1 THEN JSONStringify(elements[1])
            ELSE JSONStringify(elements[1]) \o <<Punctuator(",")>>
                 \o SerializeElements(Tail(elements))
        SerializeMembers(members) ==
            IF Len(members) = 0 THEN <<>>
            ELSE LET first == <<QuoteJSONString(members[1].key), Punctuator(":")>>
                              \o JSONStringify(members[1].value)
                 IN  IF Len(members) = 1 THEN first
                     ELSE first \o <<Punctuator(",")>> \o SerializeMembers(Tail(members))
    IN  CASE value.t = "num" -> <<NumberLiteral(value.v[1])>>
          [] value.t = "str" -> <<QuoteJSONString(value.v)>>
          [] value.t = "arr" ->
                 <<Punctuator("[")>> \o SerializeElements(value.v) \o <<Punctuator("]")>>
          [] value.t = "obj" ->
                 <<Punctuator("{")>> \o SerializeMembers(value.v) \o <<Punctuator("}")>>
          [] value.t = "null" -> <<[k |-> "null", s |-> <<>>]>>

storageKeys ==
    [accounts |-> "accounts", transactions |-> "transactions", theme |-> "theme"]

legacyKeys == [todos |-> "todos", notes |-> "notes"]

\* the outcome of a call that an exception leaves
Thrown == [t |-> "thrown", v |-> <<>>]

\* JSON.parse(text): the value of the text, which is one JSON value and
\* nothing after it; a SyntaxError otherwise.  A string literal is well formed
\* when it holds no quotation mark and no line feed unescaped and no backslash
\* that starts no escape, a number literal when it is digits, with no zero in
\* front of others, after an optional minus sign.  Parsing from a position
\* gives the value and the position after it.
JSONParse(tokens) ==
    LET RECURSIVE NumberValue(_)
        RECURSIVE ParseValue(_)
        RECURSIVE ParseElements(_, _)
        RECURSIVE ParseMembers(_, _)
        IsPunctuator(i, c) ==
            i <= Len(tokens) /\ tokens[i].k = "punct" /\ tokens[i].s = <<c>>
        ParseFails == [ok |-> FALSE, value |-> JNull, next |-> 0]
        Parsed(value, next) == [ok |-> TRUE, value |-> value, next |-> next]
        WellQuoted(chars) ==
            \A i \in 1..Len(chars) : chars[i] \notin {"\"", "\\", "\n"}
        UnquoteJSONString(chars) ==
            [i \in 1..Len(chars) |->
                CASE chars[i] = "\\\"" -> "\""
                  [] chars[i] = "\\\\" -> "\\"
                  [] chars[i] = "\\n" -> "\n"
                  [] OTHER -> chars[i]]
        IsNumberLiteral(chars) ==
            LET digits == IF Len(chars) > 0 /\ chars[1] = "-" THEN Tail(chars) ELSE chars
            IN  /\ Len(digits) > 0
                /\ \A i \in 1..Len(digits) : digits[i] \in {ToString(d) : d \in 0..9}
                /\ Len(digits) > 1 => digits[1] # "0"
        NumberValue(chars) ==
            IF Len(chars) = 0 THEN 0
            ELSE IF chars[1] = "-" THEN 0 - NumberValue(Tail(chars))
            ELSE 10 * NumberValue(SubSeq(chars, 1, Len(chars) - 1))
                 + (CHOOSE d \in 0..9 : ToString(d) = chars[Len(chars)])
        \* value (, value)* ] from position i, after the elements in done
        ParseElements(i, done) ==
            LET element == ParseValue(i) IN
            IF ~element.ok THEN ParseFails
            ELSE IF IsPunctuator(element.next, ",")
              THEN ParseElements(element.next + 1, Append(done, element.value))
            ELSE IF IsPunctuator(element.next, "]")
              THEN Parsed(JArr(Append(done, element.value)), element.next + 1)
            ELSE ParseFails
        \* key : value (, key : value)* } from position i, after the members in done
        ParseMembers(i, done) ==
            IF ~(/\ i <= Len(tokens)
                 /\ tokens[i].k = "str"
                 /\ WellQuoted(tokens[i].s)
                 /\ IsPunctuator(i + 1, ":"))
              THEN ParseFails
            ELSE LET value == ParseValue(i + 2)
                     members == Append(done, Member(UnquoteJSONString(tokens[i].s),
                                                    value.value))
                 IN  IF ~value.ok THEN ParseFails
                     ELSE IF IsPunctuator(value.next, ",")
                       THEN ParseMembers(value.next + 1, members)
                     ELSE IF IsPunctuator(value.next, "}")
                       THEN Parsed(JObject(members), value.next + 1)
                     ELSE ParseFails
        \* one JSON value from position i
        ParseValue(i) ==
            IF i > Len(tokens) THEN ParseFails
            ELSE CASE tokens[i].k = "null" -> Parsed(JNull, i + 1)
                   [] tokens[i].k = "num" ->
                          IF IsNumberLiteral(tokens[i].s)
                            THEN Parsed(JNum(NumberValue(tokens[i].s)), i + 1)
                            ELSE ParseFails
                   [] tokens[i].k = "str" ->
                          IF WellQuoted(tokens[i].s)
                            THEN Parsed(JStr(UnquoteJSONString(tokens[i].s)), i + 1)
                            ELSE ParseFails
                   [] IsPunctuator(i, "[") ->
                          IF IsPunctuator(i + 1, "]") THEN Parsed(JArr(<<>>), i + 2)
                          ELSE ParseElements(i + 1, <<>>)
                   [] IsPunctuator(i, "{") ->
                          IF IsPunctuator(i + 1, "}") THEN Parsed(JObject(<<>>), i + 2)
                          ELSE ParseMembers(i + 1, <<>>)
                   [] OTHER -> ParseFails
        whole == ParseValue(1)
    IN  IF whole.ok /\ whole.next = Len(tokens) + 1 THEN whole.value ELSE Thrown

\* The store as loadFromStorage meets it, each text that is held token by
\* token read: '' is the empty text, a text on which JSON.parse throws a bad
\* one, any other text the value that JSON.parse gives.
ReadStore(store) ==
    [key \in DOMAIN store |->
        LET saved == store[key] IN
        IF saved.t # "text" THEN saved
        ELSE IF Len(saved.v) = 0 THEN JEmpty
        ELSE IF JSONParse(saved.v) = Thrown THEN JBad
        ELSE JSONParse(saved.v)]

\* loadFromStorage(key, fallback): the parsed stored value, or the fallback;
\* what getItem or JSON.parse throws is caught
loadFromStorage_NoCatch(store, has, key, fallback) ==
    IF ~has THEN fallback
    ELSE LET saved == store[key] IN
         CASE saved.t = "denied" -> Thrown
           [] saved.t = "missing" -> fallback
           [] saved.t = "empty" -> fallback
           [] saved.t = "bad" -> Thrown
           [] OTHER -> saved

loadFromStorage(store, has, key, fallback) ==
    IF ~has THEN fallback
    ELSE LET saved == store[key] IN
         CASE saved.t = "denied" -> fallback
           [] saved.t = "missing" -> fallback
           [] saved.t = "empty" -> fallback
           [] saved.t = "bad" -> fallback
           [] OTHER -> saved

\* saveToStorage(key, value); fails: setItem throws, the error is swallowed
saveToStorage_ClearsOnFailure(store, has, key, value, fails) ==
    IF ~has THEN store
    ELSE IF fails THEN [store EXCEPT ![key] = JMissing]
    ELSE [store EXCEPT ![key] = value]

saveToStorage(store, has, key, value, fails) ==
    IF ~has \/ fails THEN store
    ELSE [store EXCEPT ![key] = value]

\* item?.text is a string that is non-empty after trimming
LegacyItemHasText(item) == item.t = "str" /\ Trim(item.v) # <<>>

RECURSIVE LegacyTexts(_)
LegacyTexts(items) ==
    IF items = <<>> THEN <<>>
    ELSE (IF LegacyItemHasText(Head(items)) THEN <<Trim(Head(items).v)>> ELSE <<>>)
         \o LegacyTexts(Tail(items))

\* one pass of legacyLists.forEach: the texts of one legacy key
LegacyOfKey(store, key) ==
    LET raw == store[key] IN
    IF raw.t = "arr" THEN LegacyTexts(raw.v) ELSE <<>>

collectLegacyNotes_NotesFirst(store, has) ==
    IF ~has THEN <<>>
    ELSE LegacyOfKey(store, legacyKeys.notes) \o LegacyOfKey(store, legacyKeys.todos)

collectLegacyNotes(store, has) ==
    IF ~has THEN <<>>
    ELSE LegacyOfKey(store, legacyKeys.todos) \o LegacyOfKey(store, legacyKeys.notes)

-----------------------------------------------------------------------------
(* Seed data *)

\* compiledNotes: a header line and one "- text" line per legacy note
CompiledNotes(legacyNotes) ==
    IF Len(legacyNotes) # 0
      THEN << <<"Imported notes from previous version:">> >>
           \o [i \in 1..Len(legacyNotes) |-> <<"- ">> \o legacyNotes[i]]
      ELSE << <<"Track your debt and repayments here.">> >>

createDefaultAccounts(legacyNotes, id) ==
    << [id |-> id, name |-> <<"Everyday Card">>, type |-> "CREDIT_CARD",
        startingDebt |-> 12000, notes |-> CompiledNotes(legacyNotes)],
       [id |-> id + 1, name |-> <<"Education Loan">>, type |-> "LOAN",
        startingDebt |-> 54000,
        notes |-> << <<"Make steady payments to reduce interest.">> >>] >>

\* the empty id ''
EmptyId == 0

\* accounts[i]?.id ?? ''
IdAt(accs, i) == IF Len(accs) >= i THEN accs[i].id ELSE EmptyId

createDefaultTransactions(accs, id, today) ==
    << [id |-> id, accountId |-> IdAt(accs, 1), date |-> today,
        amount |-> 2500, direction |-> "NEGATIVE",
        category |-> <<"Groceries">>, description |-> <<"Weekly essentials">>],
       [id |-> id + 1, accountId |-> IdAt(accs, 1), date |-> today,
        amount |-> 1500, direction |-> "POSITIVE",
        category |-> <<"Payment">>, description |-> <<"Monthly payment">>],
       [id |-> id + 2, accountId |-> IdAt(accs, 2), date |-> today,
        amount |-> 5000, direction |-> "POSITIVE",
        category |-> <<"Scholarship">>, description |-> <<"Extra payment">>] >>

-----------------------------------------------------------------------------
(* Balance calculator *)

RECURSIVE ReduceBalance_FloorsAtZero(_, _)
ReduceBalance_FloorsAtZero(total, txs) ==
    IF txs = <<>> THEN total
    ELSE ReduceBalance_FloorsAtZero(IF Head(txs).direction = "NEGATIVE"
                                      THEN total + Head(txs).amount
                                      ELSE Max(total - Head(txs).amount, 0),
                                    Tail(txs))

RECURSIVE ReduceBalance(_, _)
ReduceBalance(total, txs) ==
    IF txs = <<>> THEN total
    ELSE ReduceBalance(IF Head(txs).direction = "NEGATIVE"
                         THEN total + Head(txs).amount
                         ELSE total - Head(txs).amount,
                       Tail(txs))

getBalance_Unfiltered(account, txs) == ReduceBalance(account.startingDebt, txs)

getBalance(account, txs) ==
    ReduceBalance(account.startingDebt,
                  SelectSeq(txs, LAMBDA t : t.accountId = account.id))

-----------------------------------------------------------------------------
(* Aggregation layer *)

\* accounts.map((account) => ({ account, balance: getBalance(...) }))
AccountSummariesOf(accs, txs) ==
    [i \in 1..Len(accs) |-> [account |-> accs[i], balance |-> getBalance(accs[i], txs)]]

accountSummaries == AccountSummariesOf(accounts, transactions)

\* the reducer of totalRemainingDebt: sum + Math.max(balance, 0)
DebtStep_Unclamped(sum, entry) == sum + entry.balance

DebtStep(sum, entry) == sum + Max(entry.balance, 0)

RECURSIVE ReduceDebt(_, _)
ReduceDebt(sum, summaries) ==
    IF summaries = <<>> THEN sum
    ELSE ReduceDebt(DebtStep(sum, Head(summaries)), Tail(summaries))

totalRemainingDebt == ReduceDebt(0, accountSummaries)

\* the reducer of breakdownByType
BreakdownStep_Overwrite(totals, entry) ==
    [totals EXCEPT ![entry.account.type] = Max(entry.balance, 0)]

BreakdownStep_Unclamped(totals, entry) ==
    [totals EXCEPT ![entry.account.type] = @ + entry.balance]

BreakdownStep(totals, entry) ==
    [totals EXCEPT ![entry.account.type] = @ + Max(entry.balance, 0)]

RECURSIVE ReduceBreakdown(_, _)
ReduceBreakdown(totals, summaries) ==
    IF summaries = <<>> THEN totals
    ELSE ReduceBreakdown(BreakdownStep(totals, Head(summaries)), Tail(summaries))

breakdownByType ==
    ReduceBreakdown([CREDIT_CARD |-> 0, LOAN |-> 0, OVERDRAFT |-> 0], accountSummaries)

\* windowStart: new Date() moved back 30 days in local time
WindowStart(at) == at.instant - WindowDays * DayLength + at.shift

\* new Date(transaction.date) >= windowStart
InWindow(date, at) == date >= WindowStart(at)

\* the body of the recentTransactions memo, evaluated with the clock at `at`
RecentOf(txs, at) == SelectSeq(txs, LAMBDA t : InWindow(t.date, at))

RECURSIVE SumAmounts(_, _)
SumAmounts(sum, txs) ==
    IF txs = <<>> THEN sum ELSE SumAmounts(sum + Head(txs).amount, Tail(txs))

totalRecentPayments ==
    SumAmounts(0, SelectSeq(recentTransactions, LAMBDA t : t.direction = "POSITIVE"))

totalRecentCharges ==
    SumAmounts(0, SelectSeq(recentTransactions, LAMBDA t : t.direction = "NEGATIVE"))

\* the reducer of highestDebtAccount; null is <<>>, an entry is <<[account, debt]>>
HighestStep_LastWins(current, entry) ==
    LET debt == Max(entry.balance, 0) IN
    IF current = <<>> \/ debt >= current[1].debt
      THEN <<[account |-> entry.account, debt |-> debt]>>
      ELSE current

HighestStep(current, entry) ==
    LET debt == Max(entry.balance, 0) IN
    IF current = <<>> \/ debt > current[1].debt
      THEN <<[account |-> entry.account, debt |-> debt]>>
      ELSE current

RECURSIVE ReduceHighest(_, _)
ReduceHighest(current, summaries) ==
    IF summaries = <<>> THEN current
    ELSE ReduceHighest(HighestStep(current, Head(summaries)), Tail(summaries))

highestDebtAccount == ReduceHighest(<<>>, accountSummaries)

\* recentTransactions.some(accountId === account.id && direction === 'POSITIVE')
HasRecentPayment(account, recent) ==
    \E i \in 1..Len(recent) :
        recent[i].accountId = account.id /\ recent[i].direction = "POSITIVE"

accountsWithoutRecentPayments ==
    SelectSeq(accountSummaries, LAMBDA e : ~HasRecentPayment(e.account, recentTransactions))

-----------------------------------------------------------------------------
(* Startup: the useState initializers of App and the first render *)

\* stored.length throws a TypeError: stored is null
LengthThrows(j) == j.t = "null"

\* stored.length is truthy: a non-empty array or string
LengthTruthy(j) == j.t \in {"arr", "str"} /\ Len(j.v) # 0

\* the accounts initializer: [threw, value, seeded]
accountsInitializer(store, has, id) ==
    LET legacyNotes == collectLegacyNotes(store, has)
        stored == loadFromStorage(store, has, storageKeys.accounts, JArr(<<>>))
    IN  IF LengthThrows(stored)
          THEN [threw |-> TRUE, value |-> JNull, seeded |-> FALSE]
        ELSE IF LengthTruthy(stored)
          THEN [threw |-> FALSE, value |-> stored, seeded |-> FALSE]
        ELSE [threw |-> FALSE, value |-> JArr(createDefaultAccounts(legacyNotes, id)),
              seeded |-> TRUE]

\* what const [primary, secondary] = accounts can read ids from
Destructurable(value) == IF value.t = "arr" THEN value.v ELSE <<>>

\* the transactions initializer: [threw, value, seeded]
transactionsInitializer(store, has, accs, id, today) ==
    LET stored == loadFromStorage(store, has, storageKeys.transactions, JArr(<<>>))
    IN  IF LengthThrows(stored)
          THEN [threw |-> TRUE, value |-> JNull, seeded |-> FALSE]
        ELSE IF LengthTruthy(stored)
          THEN [threw |-> FALSE, value |-> stored, seeded |-> FALSE]
        ELSE [threw |-> FALSE,
              value |-> JArr(createDefaultTransactions(Destructurable(accs), id, today)),
              seeded |-> TRUE]

LightTheme == JStr(<<"light">>)
DarkTheme == JStr(<<"dark">>)

\* the theme initializer
themeInitializer(store, has) == loadFromStorage(store, has, storageKeys.theme, LightTheme)

\* The state App holds after its first render, or the crash that ends it:
\* an initializer throws, or the render calls accounts.map / transactions.filter
\* on a value that is no array.
Startup(store, has, id, at) ==
    LET a == accountsInitializer(store, has, id)
        idT == IF a.seeded THEN id + 2 ELSE id
        t == IF a.threw THEN [threw |-> TRUE, value |-> JNull, seeded |-> FALSE]
             ELSE transactionsInitializer(store, has, a.value, idT, at.instant)
        ok == ~a.threw /\ ~t.threw /\ a.value.t = "arr" /\ t.value.t = "arr"
        accs == IF ok THEN a.value.v ELSE <<>>
        txs == IF ok THEN t.value.v ELSE <<>>
    IN  [ok |-> ok,
         theme |-> themeInitializer(store, has),
         accounts |-> accs,
         transactions |-> txs,
         recentTransactions |-> RecentOf(txs, at),
         formAccountId |-> IdAt(accs, 1),
         nextId |-> IF t.seeded THEN idT + 3 ELSE idT]

AllEffects == {storageKeys.accounts, storageKeys.transactions, storageKeys.theme}

NoFilters == [accountId |-> <<>>, direction |-> "ALL"]

\* the variables a mount sets from storage `store`
Mount(store, has, id, at) ==
    LET s == Startup(store, has, id, at) IN
    /\ pc' = IF s.ok THEN "effects" ELSE "crashed"
    /\ theme' = s.theme
    /\ accounts' = s.accounts
    /\ transactions' = s.transactions
    /\ recentTransactions' = s.recentTransactions
    /\ formAccountId' = s.formAccountId
    /\ filters' = NoFilters
    /\ accountError' = ""
    /\ transactionError' = ""
    /\ dirty' = IF s.ok THEN AllEffects ELSE {}
    /\ nextId' = s.nextId

-----------------------------------------------------------------------------
(* Inputs *)

AccountTypes == {"CREDIT_CARD", "LOAN", "OVERDRAFT"}

\* the options of the account form's type select
TypeInputs == {"CREDIT_CARD", "LOAN", "OVERDRAFT"}

Directions == {"NEGATIVE", "POSITIVE"}

\* what the user types as the account name (the input is required: a browser
\* fires no submit while it is empty)
NameInputs == {<<" ">>, <<" ", "A", " ">>}

\* what the user types as the notes of an account
NotesInputs == {<<>>, <<" ", "pay monthly", " ">>}

\* what the user types as starting debt and as amount (a text that is no
\* number among them: the number fields do not take it)
DebtInputs == {EmptyText, NotNumeric, NumText(0 - 500), NumText(0), NumText(49000)}

AmountInputs == {EmptyText, NotNumeric, NumText(0), NumText(0 - 60000), NumText(60000)}

\* what the user types as category and as description
CategoryInputs == {<<"General">>, <<" ">>, <<" ", "Cash">>}

DescriptionInputs == {<<>>, <<"rent", " ">>}

\* the value of the date input: '' when the field is cleared, or a picked day
ClearedDate == <<>>

PickedDate(day) == <<day>>

\* new Date().toISOString().slice(0, 10): the UTC day of an instant
UtcDay(instant) == instant \div DayLength

\* new Date(form.date).toISOString() throws a RangeError for ''
DateThrows(dateIn) == dateIn = ClearedDate

\* new Date(form.date).toISOString(): the UTC midnight of the picked day
DateToISOString(dateIn) == dateIn[1] * DayLength

\* the dates the user picks, as offsets in days from today
DateOffsets == {0 - 31, 0, 1}

\* what the date field holds at a submit: cleared, or one of the picked days
DateInputs(at) ==
    {ClearedDate} \cup {PickedDate(UtcDay(at.instant) + offset) : offset \in DateOffsets}

\* what a visit can find under the legacy keys when they were not written by
\* the previous version: texts with blanks around them, blank and empty texts,
\* items without a text
LegacyTodos ==
    JArr(<< JStr(<<" ", "m", " ">>), JStr(<<" ">>), JNum(7), JStr(<<"n">>) >>)

LegacyNotes == JArr(<< JStr(<<"p", " ">>), JNull, JStr(<<>>) >>)

EmptyStorage ==
    [accounts |-> JMissing, transactions |-> JMissing, theme |-> JMissing,
     todos |-> JMissing, notes |-> JMissing]

\* what the previous version (a todo and notes app) stores: the todo the user
\* added, trimmed, in front of its two default todos; its default note; the
\* theme ("U+1F3AF" stands for the one character with that code point)
PreviousTodos ==
    JArr(<< JStr(<<"m">>), JStr(<<"Welcome to your productive space ", "U+1F3AF">>),
            JStr(<<"Add todos and notes, then toggle theme!">>) >>)

PreviousNotes == JArr(<< JStr(<<"Tips: double-check your goals and keep it simple.">>) >>)

FirstStorage ==
    [EmptyStorage EXCEPT !.todos = PreviousTodos, !.notes = PreviousNotes,
                         !.theme = JStr(<<"light">>)]

AccountIds(accs) == {accs[i].id : i \in 1..Len(accs)}

-----------------------------------------------------------------------------
(* AccountsSection *)

\* handleChange for the startingDebt field: the text kept in form.startingDebt
SanitizeStartingDebt(value) ==
    IF value.k = "empty" THEN EmptyText ELSE NumberToString(MathMax0(Number(value)))

\* type="number": the value of the field is '' or the digits of a number.  A
\* text that is no number is never the value of the field, so that no change
\* event and no submit carries one.
IsNumberInputValue(value) == value.k # "nan"

\* min="0" of a number input: a browser fires no submit while the field holds
\* a number below it
MeetsMin_Ignored(value) == TRUE

MeetsMin(value) == value.k # "num" \/ value.n >= 0

\* handleSubmit: the error it sets, "" when the account is added
AccountSubmitError(name, startingDebt) ==
    IF Trim(name) = <<>> THEN "name"
    ELSE IF Number(startingDebt).nan THEN "nan"
    ELSE IF Number(startingDebt).n < 0 THEN "negative"
    ELSE ""

\* form.notes.trim() || 'No notes yet.', as the lines of the notes
NotesOrDefault(notes) ==
    IF Trim(notes) = <<>> THEN << <<"No notes yet.">> >> ELSE << Trim(notes) >>

\* the notes the form holds when it is first rendered
FormNotes == <<>>

\* handleSubmit: newAccount
NewAccount(id, name, type, startingDebt, notes) ==
    [id |-> id, name |-> Trim(name), type |-> type,
     startingDebt |-> OrZero(MathMax0(Number(startingDebt))),
     notes |-> NotesOrDefault(notes)]

\* addAccount
addAccount_Appends(account, prev) == prev \o <<account>>

addAccount(account, prev) == <<account>> \o prev

\* a change event of the account form: handleChange clears the error
TypeAccountField ==
    /\ pc = "idle"
    /\ accountError' = ""
    /\ UNCHANGED <<pc, theme, accounts, transactions, recentTransactions, formAccountId,
                   filters, transactionError, storage, hasStorage, dirty, now, nextId,
                   created>>

\* the user fills the account form and submits it
AddAccount(nameIn, debtIn, type, notesIn) ==
    LET startingDebt == SanitizeStartingDebt(debtIn)
        err == AccountSubmitError(nameIn, startingDebt)
    IN  /\ pc = "idle"
        /\ created < MaxCreated
        /\ IsNumberInputValue(debtIn)
        /\ MeetsMin(startingDebt)
        /\ accountError' = err
        /\ pc' = "effects"
        /\ IF err = ""
             THEN /\ accounts' = addAccount(NewAccount(nextId, nameIn, type, startingDebt,
                                                       notesIn),
                                            accounts)
                  /\ nextId' = nextId + 1
                  /\ created' = created + 1
                  /\ dirty' = {storageKeys.accounts}
             ELSE UNCHANGED <<accounts, nextId, created, dirty>>
        /\ UNCHANGED <<theme, transactions, recentTransactions, formAccountId, filters,
                       transactionError, storage, hasStorage, now>>

\* deleteAccount
deleteAccount_KeepTransactions(accountId, accs, txs) ==
    [accounts |-> SelectSeq(accs, LAMBDA a : a.id # accountId),
     transactions |-> SelectSeq(txs, LAMBDA t : t.id # accountId)]

deleteAccount_KeepsAccount(accountId, accs, txs) ==
    [accounts |-> accs,
     transactions |-> SelectSeq(txs, LAMBDA t : t.accountId # accountId)]

deleteAccount(accountId, accs, txs) ==
    [accounts |-> SelectSeq(accs, LAMBDA a : a.id # accountId),
     transactions |-> SelectSeq(txs, LAMBDA t : t.accountId # accountId)]

\* the user presses "Delete account" on a card and confirms
DeleteAccount(accountId) ==
    LET after == deleteAccount(accountId, accounts, transactions) IN
    /\ pc = "idle"
    /\ accountId \in AccountIds(accounts)
    /\ accounts' = after.accounts
    /\ transactions' = after.transactions
    /\ recentTransactions' = RecentOf(after.transactions, now)
    /\ dirty' = {storageKeys.accounts, storageKeys.transactions}
    /\ pc' = "effects"
    /\ UNCHANGED <<theme, formAccountId, filters, accountError, transactionError,
                   storage, hasStorage, now, nextId, created>>

-----------------------------------------------------------------------------
(* TransactionsSection *)

\* handleChange for the amount field: the text kept in form.amount
SanitizeAmount(value) ==
    IF value.k = "empty" THEN EmptyText ELSE NumberToString(MathAbs(Number(value)))

\* handleSubmit: the error it sets, "" when the transaction is added
TransactionSubmitError(accountId, amount) ==
    LET amountValue == MathAbs(Number(amount)) IN
    IF accountId = EmptyId THEN "account"
    ELSE IF amountValue.nan THEN "nan"
    ELSE IF amountValue.n <= 0 THEN "amount"
    ELSE ""

\* text || fallback for a text: '' is falsy
OrText(text, fallback) == IF text = <<>> THEN fallback ELSE text

\* the date, the category and the description the form holds when it is first
\* rendered
FormDate == PickedDate(UtcDay(now.instant))

FormCategory == <<"General">>

FormDescription == <<>>

\* handleSubmit: newTransaction
NewTransaction(id, accountId, dateIn, amount, direction, category, description) ==
    [id |-> id, accountId |-> accountId, date |-> DateToISOString(dateIn),
     amount |-> OrZero(MathAbs(Number(amount))), direction |-> direction,
     category |-> OrText(Trim(category), <<"General">>),
     description |-> OrText(Trim(description), <<"No description">>)]

\* addTransaction
addTransaction_Replaces(transaction, prev) == <<transaction>>

addTransaction(transaction, prev) == <<transaction>> \o prev

\* a change event of a text field of the transaction form: handleChange clears
\* the error
TypeTransactionField ==
    /\ pc = "idle"
    /\ transactionError' = ""
    /\ UNCHANGED <<pc, theme, accounts, transactions, recentTransactions, formAccountId,
                   filters, accountError, storage, hasStorage, dirty, now, nextId,
                   created>>

\* the user picks an account in the form's select: one of the options (the
\* effects that run after this render find nothing to do: form.accountId is
\* not empty and no state of App changed)
ChangeFormAccount(accountId) ==
    /\ pc = "idle"
    /\ accountId \in AccountIds(accounts)
    /\ accountId # formAccountId
    /\ formAccountId' = accountId
    /\ transactionError' = ""
    /\ UNCHANGED <<pc, theme, accounts, transactions, recentTransactions, filters,
                   accountError, storage, hasStorage, dirty, now, nextId, created>>

\* the user fills the transaction form and submits it; the submit button is
\* disabled while there is no account.  With a cleared date field handleSubmit
\* throws after it has drawn the id: nothing is set and nothing rendered.
SubmitTransactionForm(dateIn, amountIn, direction, categoryIn, descriptionIn) ==
    LET amount == SanitizeAmount(amountIn)
        err == TransactionSubmitError(formAccountId, amount)
    IN  /\ pc = "idle"
        /\ Len(accounts) # 0
        /\ created < MaxCreated
        /\ IsNumberInputValue(amountIn)
        /\ MeetsMin(amount)
        /\ transactionError' = err
        /\ IF err = "" /\ DateThrows(dateIn)
             THEN /\ nextId' = nextId + 1
                  /\ created' = created + 1
                  /\ UNCHANGED <<pc, transactions, recentTransactions, dirty>>
             ELSE IF err = ""
             THEN /\ pc' = "effects"
                  /\ transactions' =
                        addTransaction(NewTransaction(nextId, formAccountId, dateIn,
                                                      amount, direction, categoryIn,
                                                      descriptionIn),
                                       transactions)
                  /\ recentTransactions' = RecentOf(transactions', now)
                  /\ nextId' = nextId + 1
                  /\ created' = created + 1
                  /\ dirty' = {storageKeys.transactions}
             ELSE /\ pc' = "effects"
                  /\ UNCHANGED <<transactions, recentTransactions, nextId, created, dirty>>
        /\ UNCHANGED <<theme, accounts, formAccountId, filters, accountError, storage,
                       hasStorage, now>>

\* the user fills date, amount and direction only
SubmitTransaction(dateIn, amountIn, direction) ==
    SubmitTransactionForm(dateIn, amountIn, direction, FormCategory, FormDescription)

\* the transactions the list shows
filteredTransactions ==
    SelectSeq(transactions,
              LAMBDA t : /\ filters.accountId = <<>> \/ <<t.accountId>> = filters.accountId
                         /\ filters.direction = "ALL" \/ t.direction = filters.direction)

\* the options of the two filter selects
AccountFilterOptions(accs) == {<<>>} \cup {<<id>> : id \in AccountIds(accs)}

DirectionFilterOptions == {"ALL"} \cup Directions

\* handleFilterChange on the account select; the render is followed by its
\* effects, none of which has a state of App to save
ChangeFilterAccount(value) ==
    /\ pc = "idle"
    /\ value \in AccountFilterOptions(accounts)
    /\ value # filters.accountId
    /\ filters' = [filters EXCEPT !.accountId = value]
    /\ pc' = "effects"
    /\ dirty' = {}
    /\ UNCHANGED <<theme, accounts, transactions, recentTransactions, formAccountId,
                   accountError, transactionError, storage, hasStorage, now, nextId,
                   created>>

\* handleFilterChange on the direction select
ChangeFilterDirection(value) ==
    /\ pc = "idle"
    /\ value \in DirectionFilterOptions
    /\ value # filters.direction
    /\ filters' = [filters EXCEPT !.direction = value]
    /\ pc' = "effects"
    /\ dirty' = {}
    /\ UNCHANGED <<theme, accounts, transactions, recentTransactions, formAccountId,
                   accountError, transactionError, storage, hasStorage, now, nextId,
                   created>>

\* deleteTransaction
deleteTransaction_ByAccount(transactionId, prev) ==
    SelectSeq(prev, LAMBDA t : t.accountId # transactionId)

deleteTransaction(transactionId, prev) ==
    SelectSeq(prev, LAMBDA t : t.id # transactionId)

\* the user presses "Delete" on a listed transaction and confirms
DeleteTransaction(transactionId) ==
    /\ pc = "idle"
    /\ \E i \in 1..Len(filteredTransactions) : filteredTransactions[i].id = transactionId
    /\ transactions' = deleteTransaction(transactionId, transactions)
    /\ recentTransactions' = RecentOf(transactions', now)
    /\ dirty' = {storageKeys.transactions}
    /\ pc' = "effects"
    /\ UNCHANGED <<theme, accounts, formAccountId, filters, accountError,
                   transactionError, storage, hasStorage, now, nextId, created>>

-----------------------------------------------------------------------------
(* The earlier variant of the app (src/unnamed/part_002): its two forms *)

\* AccountsSection.handleSubmit of the earlier variant: newAccount
EarlyNewAccount(id, name, type, startingDebt, notes) ==
    [id |-> id, name |-> Trim(name), type |-> type,
     startingDebt |-> OrZero(Number(startingDebt)),
     notes |-> NotesOrDefault(notes)]

\* AccountsSection.handleSubmit of the earlier variant: the account collection
\* after it
EarlyAccountSubmit(id, name, type, startingDebt, notes, prev) ==
    IF Trim(name) = <<>> THEN prev
    ELSE addAccount(EarlyNewAccount(id, name, type, startingDebt, notes), prev)

\* the user fills the account form of the earlier variant and submits it.
\* handleChange keeps the value of the field as it is and handleSubmit has no
\* check of the starting debt: what keeps a text that is no number and a
\* number below 0 out of the handler is the field itself (type="number",
\* min="0", in a form that validates), which holds no such text and fires no
\* submit while it holds such a number; the page then stays as it is.
AddAccountEarly(nameIn, debtIn, type, notesIn) ==
    /\ pc = "idle"
    /\ created < MaxCreated
    /\ IsNumberInputValue(debtIn)
    /\ MeetsMin(debtIn)
    /\ accounts' = EarlyAccountSubmit(nextId, nameIn, type, debtIn, notesIn, accounts)
    /\ IF Trim(nameIn) = <<>>
         THEN UNCHANGED <<pc, nextId, created, dirty>>
         ELSE /\ pc' = "effects"
              /\ nextId' = nextId + 1
              /\ created' = created + 1
              /\ dirty' = {storageKeys.accounts}
    /\ UNCHANGED <<theme, transactions, recentTransactions, formAccountId, filters,
                   accountError, transactionError, storage, hasStorage, now>>

\* TransactionsSection.handleChange of the earlier variant, amount field
EarlySanitizeAmount(value) ==
    IF value.k = "empty" THEN EmptyText ELSE NumberToString(MathAbs(Number(value)))

\* TransactionsSection.handleSubmit of the earlier variant: newTransaction
EarlyNewTransaction_RawCategory(id, accountId, dateIn, amount, direction, category, description) ==
    [id |-> id, accountId |-> accountId, date |-> DateToISOString(dateIn),
     amount |-> OrZero(MathAbs(Number(amount))), direction |-> direction,
     category |-> OrText(category, <<"General">>),
     description |-> OrText(Trim(description), <<"No description">>)]

EarlyNewTransaction(id, accountId, dateIn, amount, direction, category, description) ==
    [id |-> id, accountId |-> accountId, date |-> DateToISOString(dateIn),
     amount |-> OrZero(MathAbs(Number(amount))), direction |-> direction,
     category |-> OrText(Trim(category), <<"General">>),
     description |-> OrText(Trim(description), <<"No description">>)]

\* TransactionsSection.handleSubmit of the earlier variant: the transaction
\* collection after it (unchanged when the date conversion throws)
EarlyTransactionSubmit(id, accountId, dateIn, amount, direction, category, description, prev) ==
    IF accountId = EmptyId \/ DateThrows(dateIn) THEN prev
    ELSE addTransaction(EarlyNewTransaction(id, accountId, dateIn, amount, direction,
                                            category, description),
                        prev)

\* the user fills the transaction form of the earlier variant and submits it;
\* the earlier App holds no recent-transactions memo
SubmitTransactionEarly(dateIn, amountIn, direction, categoryIn, descriptionIn) ==
    /\ pc = "idle"
    /\ Len(accounts) # 0
    /\ created < MaxCreated
    /\ IsNumberInputValue(amountIn)
    /\ MeetsMin(EarlySanitizeAmount(amountIn))
    /\ transactions' =
           EarlyTransactionSubmit(nextId, formAccountId, dateIn,
                                  EarlySanitizeAmount(amountIn), direction, categoryIn,
                                  descriptionIn, transactions)
    /\ IF formAccountId = EmptyId
         THEN UNCHANGED <<pc, nextId, created, dirty>>
         ELSE IF DateThrows(dateIn)
         THEN /\ nextId' = nextId + 1
              /\ created' = created + 1
              /\ UNCHANGED <<pc, dirty>>
         ELSE /\ pc' = "effects"
              /\ nextId' = nextId + 1
              /\ created' = created + 1
              /\ dirty' = {storageKeys.transactions}
    /\ UNCHANGED <<theme, accounts, recentTransactions, formAccountId, filters,
                   accountError, transactionError, storage, hasStorage, now>>

-----------------------------------------------------------------------------
(* App: theme, effects, reload *)

toggleTheme_AlwaysDark(prev) == DarkTheme

toggleTheme(prev) == IF prev = DarkTheme THEN LightTheme ELSE DarkTheme

ToggleTheme ==
    /\ pc = "idle"
    /\ theme' = toggleTheme(theme)
    /\ dirty' = {storageKeys.theme}
    /\ pc' = "effects"
    /\ UNCHANGED <<accounts, transactions, recentTransactions, formAccountId, filters,
                   accountError, transactionError, storage, hasStorage, now, nextId,
                   created>>

\* the effect that fills form.accountId
FillFormAccount(accountId, accs) ==
    IF accountId = EmptyId /\ IdAt(accs, 1) # EmptyId THEN accs[1].id ELSE accountId

\* the effect that resets the account filter
ResetFilter_Never(f, accs) == f

ResetFilter(f, accs) ==
    IF f.accountId # <<>> /\ ~(\E i \in 1..Len(accs) : <<accs[i].id>> = f.accountId)
      THEN [f EXCEPT !.accountId = <<>>]
      ELSE f

\* the save effects of App whose dependencies changed, in declaration order
SaveEffects_SkipsTransactions(store, has, changed, failing) ==
    LET s1 == IF storageKeys.accounts \in changed
                THEN saveToStorage(store, has, storageKeys.accounts, Stringify(accounts),
                                   storageKeys.accounts \in failing)
                ELSE store
    IN  IF storageKeys.theme \in changed
          THEN saveToStorage(s1, has, storageKeys.theme, theme,
                             storageKeys.theme \in failing)
          ELSE s1

SaveEffects(store, has, changed, failing) ==
    LET s1 == IF storageKeys.accounts \in changed
                THEN saveToStorage(store, has, storageKeys.accounts, Stringify(accounts),
                                   storageKeys.accounts \in failing)
                ELSE store
        s2 == IF storageKeys.transactions \in changed
                THEN saveToStorage(s1, has, storageKeys.transactions,
                                   Stringify(transactions),
                                   storageKeys.transactions \in failing)
                ELSE s1
    IN  IF storageKeys.theme \in changed
          THEN saveToStorage(s2, has, storageKeys.theme, theme,
                             storageKeys.theme \in failing)
          ELSE s2

\* the effects of a render run: those of TransactionsSection, then those of App;
\* failing: the keys whose setItem throws
RunEffects(failing) ==
    /\ pc = "effects"
    /\ formAccountId' = FillFormAccount(formAccountId, accounts)
    /\ filters' = ResetFilter(filters, accounts)
    /\ storage' = SaveEffects(storage, hasStorage, dirty, failing)
    /\ dirty' = {}
    /\ pc' = "idle"
    /\ UNCHANGED <<theme, accounts, transactions, recentTransactions, accountError,
                   transactionError, hasStorage, now, nextId, created>>

\* the user reloads the page: App is constructed again from storage
Restart ==
    /\ pc = "idle"
    /\ Startup(storage, hasStorage, nextId, now).nextId <= MaxId + 1
    /\ Mount(storage, hasStorage, nextId, now)
    /\ UNCHANGED <<storage, hasStorage, now, created>>

\* time passes while the page stays open
Tick(hours, shift) ==
    /\ pc = "idle"
    /\ now.instant + hours <= MaxTicks * (WindowDays + 1) * DayLength
    /\ now' = Clock(now.instant + hours, shift)
    /\ UNCHANGED <<pc, theme, accounts, transactions, recentTransactions, formAccountId,
                   filters, accountError, transactionError, storage, hasStorage, dirty,
                   nextId, created>>

-----------------------------------------------------------------------------
(* Specifications *)

\* the first visit: App is constructed at noon of day 0 from the storage that
\* the previous version left
Init ==
    /\ storage = FirstStorage
    /\ hasStorage = TRUE
    /\ now = StartClock
    /\ created = 0
    /\ LET s == Startup(storage, hasStorage, 1, now) IN
       /\ pc = "effects"
       /\ theme = s.theme
       /\ accounts = s.accounts
       /\ transactions = s.transactions
       /\ recentTransactions = s.recentTransactions
       /\ formAccountId = s.formAccountId
       /\ filters = NoFilters
       /\ accountError = ""
       /\ transactionError = ""
       /\ dirty = AllEffects
       /\ nextId = s.nextId

\* the forms are submitted with input that passes their validation
GoodAccountInput(nameIn, debtIn) ==
    AccountSubmitError(nameIn, SanitizeStartingDebt(debtIn)) = ""

GoodAmountInput(amountIn) ==
    TransactionSubmitError(formAccountId, SanitizeAmount(amountIn)) = ""

Next ==
    \/ \E nameIn \in NameInputs, debtIn \in DebtInputs, type \in TypeInputs,
          notesIn \in NotesInputs :
           GoodAccountInput(nameIn, debtIn) /\ AddAccount(nameIn, debtIn, type, notesIn)
    \/ \E accountId \in AccountIds(accounts) : DeleteAccount(accountId)
    \/ \E accountId \in AccountIds(accounts) : ChangeFormAccount(accountId)
    \/ \E dateIn \in DateInputs(now), amountIn \in AmountInputs, direction \in Directions :
           GoodAmountInput(amountIn) /\ SubmitTransaction(dateIn, amountIn, direction)
    \/ \E i \in 1..Len(transactions) : DeleteTransaction(transactions[i].id)
    \/ RunEffects({})

Spec == Init /\ [][Next]_vars

\* the page is reloaded: the user adds an account, deletes accounts and
\* transactions, toggles the theme, and App is constructed again from what the
\* effects have stored
NextReload ==
    \/ \E type \in TypeInputs :
           AddAccount(<<" ", "A", " ">>, NumText(49000), type, FormNotes)
    \/ \E accountId \in AccountIds(accounts) : DeleteAccount(accountId)
    \/ \E i \in 1..Len(transactions) : DeleteTransaction(transactions[i].id)
    \/ ToggleTheme
    \/ Restart
    \/ RunEffects({})

SpecReload == Init /\ [][NextReload]_vars

\* time passes, 30 days to the same time of day or to the midnight that
\* follows it, in a zone whose offset may have changed by any amount, while
\* the user toggles the theme, adds transactions and reloads the page
TickHours == {WindowDays * DayLength, WindowDays * DayLength + DayLength \div 2}

NextTime ==
    \/ \E hours \in TickHours, shift \in DstShifts : Tick(hours, shift)
    \/ ToggleTheme
    \/ \E dateIn \in DateInputs(now), amountIn \in AmountInputs, direction \in Directions :
           GoodAmountInput(amountIn) /\ SubmitTransaction(dateIn, amountIn, direction)
    \/ Restart
    \/ RunEffects({})

SpecTime == Init /\ [][NextTime]_vars

\* the forms are submitted with whatever the user types, the date left at today
NextForms ==
    \/ TypeAccountField
    \/ \E nameIn \in NameInputs, debtIn \in DebtInputs, type \in TypeInputs,
          notesIn \in NotesInputs :
           AddAccount(nameIn, debtIn, type, notesIn)
    \/ TypeTransactionField
    \/ \E accountId \in AccountIds(accounts) : ChangeFormAccount(accountId)
    \/ \E amountIn \in AmountInputs, direction \in Directions,
          categoryIn \in CategoryInputs, descriptionIn \in DescriptionInputs :
           SubmitTransactionForm(FormDate, amountIn, direction, categoryIn, descriptionIn)
    \/ RunEffects({})

SpecForms == Init /\ [][NextForms]_vars

\* the earlier variant, its forms submitted with whatever the user types
NextEarly ==
    \/ \E nameIn \in NameInputs, debtIn \in DebtInputs, type \in TypeInputs,
          notesIn \in NotesInputs :
           AddAccountEarly(nameIn, debtIn, type, notesIn)
    \/ \E accountId \in AccountIds(accounts) : ChangeFormAccount(accountId)
    \/ \E dateIn \in DateInputs(now), amountIn \in AmountInputs, direction \in Directions,
          categoryIn \in CategoryInputs, descriptionIn \in DescriptionInputs :
           SubmitTransactionEarly(dateIn, amountIn, direction, categoryIn, descriptionIn)
    \/ RunEffects({})

SpecEarly == Init /\ [][NextEarly]_vars

\* the account form of either variant: every step is a step of the forms of
\* the stricter variant or a submit of the account form of the earlier variant
NextEither ==
    \/ NextForms
    \/ \E nameIn \in NameInputs, debtIn \in DebtInputs, type \in TypeInputs,
          notesIn \in NotesInputs :
           AddAccountEarly(nameIn, debtIn, type, notesIn)

SpecEither == Init /\ [][NextEither]_vars

\* a first visit with or without localStorage, and writes that may fail: any
\* setItem of an effect run may throw
InitFail ==
    /\ hasStorage \in BOOLEAN
    /\ storage = IF hasStorage THEN FirstStorage ELSE EmptyStorage
    /\ now = StartClock
    /\ created = 0
    /\ LET s == Startup(storage, hasStorage, 1, now) IN
       /\ pc = "effects"
       /\ theme = s.theme
       /\ accounts = s.accounts
       /\ transactions = s.transactions
       /\ recentTransactions = s.recentTransactions
       /\ formAccountId = s.formAccountId
       /\ filters = NoFilters
       /\ accountError = ""
       /\ transactionError = ""
       /\ dirty = AllEffects
       /\ nextId = s.nextId

NextFail ==
    \/ \E accountId \in AccountIds(accounts) : DeleteAccount(accountId)
    \/ \E direction \in Directions : SubmitTransaction(FormDate, NumText(60000), direction)
    \/ ToggleTheme
    \/ \E failing \in SUBSET AllEffects : RunEffects(failing)

SpecFail == InitFail /\ [][NextFail]_vars

\* the user filters the transaction list, deletes accounts and listed
\* transactions and reloads the page; the effects of a render always run
NextFilter ==
    \/ \E value \in AccountFilterOptions(accounts) : ChangeFilterAccount(value)
    \/ \E value \in DirectionFilterOptions : ChangeFilterDirection(value)
    \/ \E accountId \in AccountIds(accounts) : DeleteAccount(accountId)
    \/ \E i \in 1..Len(transactions) : DeleteTransaction(transactions[i].id)
    \/ Restart
    \/ RunEffects({})

SpecFilter == Init /\ [][NextFilter]_vars /\ WF_vars(RunEffects({}))

\* a visit that finds arbitrary content under the accounts and transactions keys
StoredAccount ==
    [id |-> 1, name |-> <<"A">>, type |-> "OVERDRAFT", startingDebt |-> 700,
     notes |-> << <<"No notes yet.">> >>]

StoredTransaction ==
    [id |-> 2, accountId |-> 1, date |-> 0, amount |-> 300, direction |-> "NEGATIVE",
     category |-> <<"General">>, description |-> <<"No description">>]

RawAccounts ==
    {JMissing, JDenied, JEmpty, JBad, JNull, JNum(7), JStr(<<"a">>), JStr(<<>>), JObj,
     JArr(<<>>), JArr(<<StoredAccount>>)}

RawTransactions ==
    {JMissing, JDenied, JEmpty, JBad, JNull, JNum(7), JStr(<<"a">>), JStr(<<>>), JObj,
     JArr(<<>>), JArr(<<StoredTransaction>>)}

\* what a visit finds under the legacy keys
RawTodos == {JMissing, JBad, JObj, LegacyTodos}

RawNotes == {JMissing, JBad, LegacyNotes}

BootStorages ==
    {[EmptyStorage EXCEPT !.accounts = a, !.transactions = t, !.todos = l, !.notes = n] :
        a \in RawAccounts, t \in RawTransactions, l \in RawTodos, n \in RawNotes}

InitBoot ==
    /\ pc = "boot"
    /\ \/ hasStorage = TRUE /\ storage \in BootStorages
       \/ hasStorage = FALSE /\ storage = EmptyStorage
    /\ now = StartClock
    /\ created = 0
    /\ nextId = 3
    /\ theme = LightTheme
    /\ accounts = <<>>
    /\ transactions = <<>>
    /\ recentTransactions = <<>>
    /\ formAccountId = EmptyId
    /\ filters = NoFilters
    /\ accountError = ""
    /\ transactionError = ""
    /\ dirty = {}

\* App is constructed
Boot ==
    /\ pc = "boot"
    /\ Mount(storage, hasStorage, nextId, now)
    /\ UNCHANGED <<storage, hasStorage, now, created>>

\* ErrorBoundary.handleReset, the "Refresh page" button of the fallback that
\* is shown after a crash: setState lets the boundary render its child again
\* and window.location.reload() loads the page again, so that App is
\* constructed from the storage as it is, once by the reload and, when the
\* boundary renders before the page unloads (rendersFirst), once before it.
\* The storage that made the construction fail is still there: the render of
\* the boundary fails like the first one and draws its ids.
HandleReset(rendersFirst) ==
    LET id == IF rendersFirst THEN Startup(storage, hasStorage, nextId, now).nextId
              ELSE nextId
    IN  /\ pc = "crashed"
        /\ Startup(storage, hasStorage, id, now).nextId <= MaxId + 1
        /\ Mount(storage, hasStorage, id, now)
        /\ UNCHANGED <<storage, hasStorage, now, created>>

NextBoot ==
    \/ Boot
    \/ RunEffects({})
    \/ \E rendersFirst \in BOOLEAN : HandleReset(rendersFirst)

SpecBoot == InitBoot /\ [][NextBoot]_vars

\* a visit that finds two stored accounts and a stored transaction collection
\* of up to MaxLen transactions, in any order
DrawnAccounts ==
    << StoredAccount, [StoredAccount EXCEPT !.id = 2, !.startingDebt = 0] >>

DrawnShapes ==
    {[StoredTransaction EXCEPT !.accountId = a, !.amount = m, !.direction = d] :
        a \in {1, 2}, m \in {300, 1000}, d \in Directions}

DrawnTransactions ==
    UNION {{[i \in 1..n |-> [shape[i] EXCEPT !.id = 2 + i]] :
               shape \in [1..n -> DrawnShapes]} : n \in 0..MaxLen}

InitBalance ==
    /\ pc = "boot"
    /\ hasStorage = TRUE
    /\ \E txs \in DrawnTransactions :
           storage = [EmptyStorage EXCEPT !.accounts = JArr(DrawnAccounts),
                                          !.transactions = JArr(txs)]
    /\ now = StartClock
    /\ created = 0
    /\ nextId = 3 + MaxLen
    /\ theme = LightTheme
    /\ accounts = <<>>
    /\ transactions = <<>>
    /\ recentTransactions = <<>>
    /\ formAccountId = EmptyId
    /\ filters = NoFilters
    /\ accountError = ""
    /\ transactionError = ""
    /\ dirty = {}

SpecBalance == InitBalance /\ [][Boot \/ RunEffects({})]_vars

\* The JavaScript values that the records of the model stand for: an id is a
\* string ('' the empty id), a date an ISO string, the notes one string with
\* its lines separated by line feeds.  An object has the members that the
\* record of the model keeps, in the order of the source (bankName, currency
\* and createdAt of an account, strings like its name, are in no record).
IdJson(id) == JStr(IF id = EmptyId THEN <<>> ELSE <<"id-", ToString(id)>>)

AccountsJson(accs) ==
    LET RECURSIVE JoinLines(_)
        JoinLines(lines) ==
            IF Len(lines) = 0 THEN <<>>
            ELSE IF Len(lines) = 1 THEN lines[1]
            ELSE lines[1] \o <<"\n">> \o JoinLines(Tail(lines))
        AccountJson(account) ==
            JObject(<< Member(<<"id">>, IdJson(account.id)),
                       Member(<<"name">>, JStr(account.name)),
                       Member(<<"type">>, JStr(<<account.type>>)),
                       Member(<<"startingDebt">>, JNum(account.startingDebt)),
                       Member(<<"notes">>, JStr(JoinLines(account.notes))) >>)
    IN  JArr([i \in 1..Len(accs) |-> AccountJson(accs[i])])

TransactionsJson(txs) ==
    LET IsoJson(instant) ==
            JStr(<<"day ", ToString(instant \div DayLength), "T",
                   ToString(instant % DayLength), ":00:00.000Z">>)
        TransactionJson(transaction) ==
            JObject(<< Member(<<"id">>, IdJson(transaction.id)),
                       Member(<<"accountId">>, IdJson(transaction.accountId)),
                       Member(<<"date">>, IsoJson(transaction.date)),
                       Member(<<"amount">>, JNum(transaction.amount)),
                       Member(<<"direction">>, JStr(<<transaction.direction>>)),
                       Member(<<"category">>, JStr(transaction.category)),
                       Member(<<"description">>, JStr(transaction.description)) >>)
    IN  JArr([i \in 1..Len(txs) |-> TransactionJson(txs[i])])

\* The collections the app can hold when it saves them: none, the default
\* accounts with the notes imported from the previous version, an account the
\* user has added (its name with quotation marks or a backslash in it),
\* alone or in front of the default ones;
JsonAccountCollections ==
    LET defaults == createDefaultAccounts(collectLegacyNotes(FirstStorage, TRUE), 1)
        added == {NewAccount(3, name, "OVERDRAFT", debt, notes) :
                     name \in {<<"A">>, <<"Say ", "\"", "hi", "\"">>,
                               <<"C:", "\\", "cards">>},
                     debt \in {NumText(0), NumText(49000)},
                     notes \in NotesInputs}
    IN  {<<>>, defaults}
        \cup {<<account>> \o rest : account \in added, rest \in {<<>>, defaults}}

\* none, the default transactions (those of a single account among them, the
\* last with the empty accountId), a transaction the user has added, alone or
\* in front of the default ones.
JsonTransactionCollections ==
    LET accs == createDefaultAccounts(collectLegacyNotes(FirstStorage, TRUE), 1)
        defaults == {createDefaultTransactions(some, 4, StartClock.instant) :
                        some \in {accs, <<accs[1]>>}}
        added == {NewTransaction(7, 1, PickedDate(day), NumText(60000), direction,
                                 FormCategory, description) :
                     day \in {0 - 31, 0}, direction \in Directions,
                     description \in {<<>>, <<"rent ", "\"", "May", "\"">>}}
    IN  {<<>>} \cup defaults
        \cup {<<transaction>> \o rest : transaction \in added,
                                         rest \in {<<>>} \cup defaults}

\* a render has left the two collections to be saved, with or without
\* localStorage
InitJson ==
    /\ pc = "effects"
    /\ hasStorage \in BOOLEAN
    /\ storage = IF hasStorage THEN FirstStorage ELSE EmptyStorage
    /\ now = StartClock
    /\ created = 0
    /\ nextId = 8
    /\ theme = LightTheme
    /\ accounts \in JsonAccountCollections
    /\ transactions \in JsonTransactionCollections
    /\ recentTransactions = RecentOf(transactions, now)
    /\ formAccountId = IdAt(accounts, 1)
    /\ filters = NoFilters
    /\ accountError = ""
    /\ transactionError = ""
    /\ dirty = {storageKeys.accounts, storageKeys.transactions}

\* the save effects of the two collections run and write their texts, held
\* token by token (the empty sequence of tokens is '');
\* failing: the keys whose setItem throws
SaveCollections(failing) ==
    /\ pc = "effects"
    /\ dirty = {storageKeys.accounts, storageKeys.transactions}
    /\ storage' =
           saveToStorage(saveToStorage(storage, hasStorage, storageKeys.accounts,
                                       [t |-> "text",
                                        v |-> JSONStringify(AccountsJson(accounts))],
                                       storageKeys.accounts \in failing),
                         hasStorage, storageKeys.transactions,
                         [t |-> "text",
                          v |-> JSONStringify(TransactionsJson(transactions))],
                         storageKeys.transactions \in failing)
    /\ dirty' = {}
    /\ pc' = "idle"
    /\ UNCHANGED <<theme, accounts, transactions, recentTransactions, formAccountId,
                   filters, accountError, transactionError, hasStorage, now, nextId,
                   created>>

NextJson ==
    \E failing \in SUBSET {storageKeys.accounts, storageKeys.transactions} :
        SaveCollections(failing)

SpecJson == InitJson /\ [][NextJson]_vars

-----------------------------------------------------------------------------
(* Vocabulary of the properties *)

Running == pc \in {"idle", "effects"}

\* the sum of the amounts of the transactions of txs that satisfy Keep
SumOver(txs, Keep(_)) ==
    LET part[i \in 0..Len(txs)] ==
            IF i = 0 THEN 0
            ELSE part[i - 1] + (IF Keep(txs[i]) THEN txs[i].amount ELSE 0)
    IN  part[Len(txs)]

OwnAmount(txs, accountId, direction) ==
    SumOver(txs, LAMBDA t : t.accountId = accountId /\ t.direction = direction)

\* the position of the record with this id in a collection, 0 if absent
Position(seq, id) ==
    IF \E k \in 1..Len(seq) : seq[k].id = id
      THEN CHOOSE k \in 1..Len(seq) : seq[k].id = id
      ELSE 0

\* every record of new is a record of old, in the same relative order
KeepsOrderOf(old, new) ==
    /\ \A i \in 1..Len(new) : Position(old, new[i].id) # 0 /\ old[Position(old, new[i].id)] = new[i]
    /\ \A i, j \in 1..Len(new) :
           i < j => Position(old, new[i].id) < Position(old, new[j].id)

\* some input makes this step a submit that adds a transaction
SubmitAdds ==
    \E dateIn \in DateInputs(now), amountIn \in AmountInputs, direction \in Directions :
        /\ SubmitTransaction(dateIn, amountIn, direction)
        /\ transactions' # transactions

-----------------------------------------------------------------------------
(* C1..C4 *)

\* C1: the balance of every account is its starting debt plus the amounts of
\* its own NEGATIVE transactions minus the amounts of its own POSITIVE
\* transactions; an account without a transaction of its own has its starting
\* debt as balance.
C1_BalanceFormula ==
    Running =>
        \A i \in 1..Len(accounts) :
            LET A == accounts[i] IN
            /\ getBalance(A, transactions) =
                   A.startingDebt + OwnAmount(transactions, A.id, "NEGATIVE")
                                  - OwnAmount(transactions, A.id, "POSITIVE")
            /\ (\A k \in 1..Len(transactions) : transactions[k].accountId # A.id)
                   => getBalance(A, transactions) = A.startingDebt

\* the spec's scenario: 12000 with a charge of 2500 and a payment of 1500 is
\* 13000, while another account has transactions of its own
C1_Witness ==
    /\ Running
    /\ \E i \in 1..Len(accounts) :
           /\ accounts[i].startingDebt = 12000
           /\ OwnAmount(transactions, accounts[i].id, "NEGATIVE") = 2500
           /\ OwnAmount(transactions, accounts[i].id, "POSITIVE") = 1500
           /\ getBalance(accounts[i], transactions) = 13000
           /\ \E k \in 1..Len(transactions) : transactions[k].accountId # accounts[i].id

\* C2: delete-account of A removes A and every transaction of A; the other
\* accounts and the transactions of other accounts stay, the same records in
\* the same relative order, and every other account keeps its balance.
C2_DeleteAccountCascade ==
    [][\A id \in AccountIds(accounts) :
          DeleteAccount(id) =>
              /\ id \notin AccountIds(accounts')
              /\ \A k \in 1..Len(transactions') : transactions'[k].accountId # id
              /\ AccountIds(accounts') = AccountIds(accounts) \ {id}
              /\ KeepsOrderOf(accounts, accounts')
              /\ {transactions'[k].id : k \in 1..Len(transactions')} =
                     {transactions[k].id : k \in {m \in 1..Len(transactions) :
                                                     transactions[m].accountId # id}}
              /\ KeepsOrderOf(transactions, transactions')
              /\ \A i \in 1..Len(accounts') :
                     getBalance(accounts'[i], transactions') =
                         getBalance(accounts'[i], transactions)]_vars

\* an account has just been deleted while another account and transactions of
\* that other account remain
C2_Witness ==
    /\ pc = "effects"
    /\ dirty = {storageKeys.accounts, storageKeys.transactions}
    /\ Len(accounts) = 1
    /\ Len(transactions) # 0
    /\ \A k \in 1..Len(transactions) : transactions[k].accountId = accounts[1].id

\* C3: a submitted transaction is prepended only for an account that is in the
\* account collection at that moment.
C3_TransactionTargetExists ==
    [][SubmitAdds => Head(transactions').accountId \in AccountIds(accounts)]_vars

\* C4: once the accounts key holds a stored value, a startup takes the accounts
\* from it: it seeds no default account and folds no legacy text.
C4_NoSeedingOnceStored ==
    [][(Restart /\ storage[storageKeys.accounts].t # "missing") =>
          /\ storage[storageKeys.accounts].t = "arr"
          /\ accounts' = storage[storageKeys.accounts].v]_vars

-----------------------------------------------------------------------------
(* C5..C10 *)

\* C5: whatever is stored under the accounts and the transactions key, startup
\* ends with two in-memory collections and no exception escapes: App never
\* crashes while it is constructed and first rendered.
C5_StartupNeverCrashes == pc # "crashed"

\* the trailing window of the spec: from now - 30 days through now
InTrailingWindow(t) == WindowStart(now) <= t.date /\ t.date <= now.instant

\* C6: the recent-payments and recent-charges totals are the sums of amount
\* over exactly the transactions dated from now - 30 days through now, by
\* direction.
C6_RecentTotalsAreWindowSums ==
    Running =>
        /\ totalRecentPayments =
               SumOver(transactions,
                       LAMBDA t : InTrailingWindow(t) /\ t.direction = "POSITIVE")
        /\ totalRecentCharges =
               SumOver(transactions,
                       LAMBDA t : InTrailingWindow(t) /\ t.direction = "NEGATIVE")

\* C7: at every render the recent set is the one for the current time.
C7_RecentIsFreshAtRender ==
    [][(pc = "idle" /\ pc' = "effects") =>
          recentTransactions' = RecentOf(transactions', now')]_vars

\* the balance of the account at position i
BalanceAt(i) == getBalance(accounts[i], transactions)

\* the sum of f over the positions 1..n
SumTo(n, f(_)) ==
    LET part[i \in 0..n] == IF i = 0 THEN 0 ELSE part[i - 1] + f(i)
    IN  part[n]

\* C8: total remaining debt is the sum of the balances of the accounts that
\* are in debt, an account in credit counting 0, and it is never negative.
C8_TotalDebtIsClampedSum ==
    Running =>
        /\ totalRemainingDebt >= 0
        /\ totalRemainingDebt =
               SumTo(Len(accounts), LAMBDA i : IF BalanceAt(i) > 0 THEN BalanceAt(i) ELSE 0)

\* an account in credit next to an account in debt
C8_Witness ==
    /\ Running
    /\ \E i, j \in 1..Len(accounts) : BalanceAt(i) < 0 /\ BalanceAt(j) > 0
    /\ totalRemainingDebt > SumTo(Len(accounts), BalanceAt)

\* C9: the accounts lacking recent payments are exactly the accounts without
\* a POSITIVE transaction of their own dated from now - 30 days through now.
C9_LackingPaymentsSet ==
    Running =>
        {accountsWithoutRecentPayments[i].account.id :
            i \in 1..Len(accountsWithoutRecentPayments)}
        = {id \in AccountIds(accounts) :
              ~\E k \in 1..Len(transactions) :
                   /\ transactions[k].accountId = id
                   /\ transactions[k].direction = "POSITIVE"
                   /\ InTrailingWindow(transactions[k])}

\* max(balance, 0) of the account at position i
ClampedAt(i) == IF BalanceAt(i) > 0 THEN BalanceAt(i) ELSE 0

\* C10: the highest-debt account is null without accounts; otherwise it is the
\* first account in collection order whose clamped balance is the greatest.
C10_HighestDebtIsFirstMaximum ==
    Running =>
        IF Len(accounts) = 0 THEN highestDebtAccount = <<>>
        ELSE /\ Len(highestDebtAccount) = 1
             /\ \E i \in 1..Len(accounts) :
                    /\ highestDebtAccount[1].account = accounts[i]
                    /\ highestDebtAccount[1].debt = ClampedAt(i)
                    /\ \A j \in 1..Len(accounts) : ClampedAt(j) <= ClampedAt(i)
                    /\ \A j \in 1..(i - 1) : ClampedAt(j) < ClampedAt(i)

\* two accounts are tied for the greatest clamped balance
C10_Witness ==
    /\ Running
    /\ \E i, j \in 1..Len(accounts) :
           /\ i < j
           /\ ClampedAt(i) = ClampedAt(j)
           /\ \A k \in 1..Len(accounts) : ClampedAt(k) <= ClampedAt(i)
           /\ highestDebtAccount[1].account = accounts[i]

-----------------------------------------------------------------------------
(* C11..C14 *)

\* C11: the breakdown by type has exactly the keys CREDIT_CARD, LOAN and
\* OVERDRAFT, and maps each to the sum of max(balance, 0) over the accounts of
\* that type: 0 for a type that no account has.
C11_BreakdownIsPerTypeClampedSum ==
    Running =>
        /\ DOMAIN breakdownByType = AccountTypes
        /\ \A type \in AccountTypes :
               /\ breakdownByType[type] =
                      SumTo(Len(accounts),
                            LAMBDA i : IF accounts[i].type = type THEN ClampedAt(i) ELSE 0)
               /\ (\A i \in 1..Len(accounts) : accounts[i].type # type)
                      => breakdownByType[type] = 0

\* two accounts in debt share a type, and no account has another type
C11_Witness ==
    /\ Running
    /\ \E i, j \in 1..Len(accounts) :
           /\ i # j
           /\ accounts[i].type = accounts[j].type
           /\ ClampedAt(i) > 0
           /\ ClampedAt(j) > 0
           /\ breakdownByType[accounts[i].type] >= ClampedAt(i) + ClampedAt(j)
    /\ \E type \in AccountTypes :
           /\ \A i \in 1..Len(accounts) : accounts[i].type # type
           /\ breakdownByType[type] = 0

\* the permutations of the positions 1..n
Perms(n) == {p \in [1..n -> 1..n] : \A i, j \in 1..n : i # j => p[i] # p[j]}

\* a collection in the order p
Reordered(txs, p) == [i \in 1..Len(txs) |-> txs[p[i]]]

\* C12: the balance of every account is the same for every reordering of the
\* transaction collection.
C12_BalanceIgnoresOrder ==
    Running =>
        \A i \in 1..Len(accounts) :
            \A p \in Perms(Len(transactions)) :
                getBalance(accounts[i], Reordered(transactions, p)) = BalanceAt(i)

\* an account with a payment above its starting debt followed by a charge,
\* next to a transaction of another account: some reordering puts the charge
\* first
C12_Witness ==
    /\ Running
    /\ Len(accounts) = 2
    /\ Len(transactions) = 3
    /\ transactions[1].accountId = accounts[1].id
    /\ transactions[1].direction = "POSITIVE"
    /\ transactions[1].amount > accounts[1].startingDebt
    /\ transactions[2].accountId = accounts[1].id
    /\ transactions[2].direction = "NEGATIVE"
    /\ transactions[3].accountId = accounts[2].id
    /\ \E p \in Perms(3) :
           /\ Reordered(transactions, p)[1] = transactions[2]
           /\ getBalance(accounts[1], Reordered(transactions, p)) = BalanceAt(1)

\* C13: a submit that adds transaction t moves the balance of t's account by
\* + t.amount when t is NEGATIVE and by - t.amount when t is POSITIVE, and
\* leaves the balance of every other account as it was.
C13_AddTransactionMovesOneBalance ==
    [][SubmitAdds =>
          LET t == Head(transactions') IN
          \A i \in 1..Len(accounts') :
              getBalance(accounts'[i], transactions') =
                  IF accounts'[i].id # t.accountId
                    THEN getBalance(accounts'[i], transactions)
                  ELSE IF t.direction = "NEGATIVE"
                    THEN getBalance(accounts'[i], transactions) + t.amount
                  ELSE getBalance(accounts'[i], transactions) - t.amount]_vars

\* a payment has just been added for one of two accounts that both have
\* earlier transactions
C13_Witness ==
    /\ pc = "effects"
    /\ dirty = {storageKeys.transactions}
    /\ Len(transactions) = 4
    /\ Head(transactions).id = nextId - 1
    /\ Head(transactions).direction = "POSITIVE"
    /\ Head(transactions).amount > 0
    /\ Len(accounts) = 2
    /\ \E i, j \in 1..2 :
           /\ accounts[i].id = Head(transactions).accountId
           /\ accounts[j].id # Head(transactions).accountId
           /\ BalanceAt(i) =
                  getBalance(accounts[i], Tail(transactions)) - Head(transactions).amount
           /\ BalanceAt(j) # accounts[j].startingDebt

\* the ids of the transactions of txs that belong to the account
OwnIds(txs, accountId) ==
    {txs[k].id : k \in {m \in 1..Len(txs) : txs[m].accountId = accountId}}

\* C14: delete-account is one step of the visible state: a step that takes an
\* account out of the account collection leaves no transaction of that account
\* in the transaction collection, and a step that deletes account A takes A
\* out and takes no transaction of a remaining account with it.
C14_DeleteAccountIsAtomic ==
    [][/\ \A id \in AccountIds(accounts) \ AccountIds(accounts') :
              OwnIds(transactions', id) = {}
       /\ \A id \in AccountIds(accounts) :
              DeleteAccount(id) =>
                  /\ id \notin AccountIds(accounts')
                  /\ \A other \in AccountIds(accounts') :
                         OwnIds(transactions', other) = OwnIds(transactions, other)]_vars

\* the first state rendered after the account with two transactions was
\* deleted: the account and both transactions are gone, the other account and
\* its transaction are there
C14_Witness ==
    /\ pc = "effects"
    /\ dirty = {storageKeys.accounts, storageKeys.transactions}
    /\ Len(accounts) = 1
    /\ accounts[1].type = "LOAN"
    /\ Len(transactions) = 1
    /\ OwnIds(transactions, accounts[1].id) # {}

-----------------------------------------------------------------------------
(* C15..C20 *)

\* every account has a starting debt >= 0
StartingDebtsNonNegative ==
    \A i \in 1..Len(accounts) : accounts[i].startingDebt >= 0

\* the account form holds a name that is empty after trimming, or a starting
\* debt that is no number or is negative
InvalidAccountInput(name, startingDebt) ==
    \/ Trim(name) = <<>>
    \/ Number(startingDebt).nan
    \/ Number(startingDebt).n < 0

Fallbacks == {JArr(<<>>), LightTheme}

\* C17: loadFromStorage never throws.  It returns the fallback when there is no
\* storage, when the key is missing, when reading throws and when the stored
\* text cannot be deserialized, and the deserialized value otherwise; and the
\* construction of App, which only loads, leaves the storage as it is.
C17_LoadFallsBackAndNeverThrows ==
    /\ [](\A key \in {storageKeys.accounts, storageKeys.transactions}, fallback \in Fallbacks :
             LET saved == storage[key]
                 loaded == loadFromStorage(storage, hasStorage, key, fallback)
             IN  /\ loaded.t # "thrown"
                 /\ IF ~hasStorage \/ saved.t \in {"missing", "denied", "empty", "bad"}
                      THEN loaded = fallback
                      ELSE loaded = saved)
    /\ [][Boot => storage' = storage]_vars

\* App has just been constructed from a storage whose accounts text is no JSON
\* and whose transactions key cannot be read: both loads gave the fallback (the
\* collections are the seeded ones) and the storage still holds what it held
C17_Witness ==
    /\ pc = "effects"
    /\ dirty = AllEffects
    /\ hasStorage
    /\ storage[storageKeys.accounts] = JBad
    /\ storage[storageKeys.transactions] = JDenied
    /\ Len(accounts) = 2
    /\ Len(transactions) = 3

\* C18: a write that fails is swallowed and not retried.  Whatever writes of an
\* effect run fail, the run ends with the app idle again, the collections and
\* the theme in memory as they were, the value stored under a key whose write
\* failed (or every key, without storage) as it was, and a key that the last
\* render did not change not written, whether or not an earlier write of it
\* failed.
C18_FailedWriteIsSwallowed ==
    [][\A failing \in SUBSET AllEffects :
          RunEffects(failing) =>
              /\ pc' = "idle"
              /\ accounts' = accounts
              /\ transactions' = transactions
              /\ theme' = theme
              /\ \A key \in DOMAIN storage :
                     (key \in failing \/ key \notin dirty \/ ~hasStorage)
                         => storage'[key] = storage[key]]_vars

\* after a write of the accounts failed the user has gone on and added a
\* transaction: the stored accounts are still the old ones
C18_Witness ==
    /\ pc = "effects"
    /\ hasStorage
    /\ dirty = {storageKeys.transactions}
    /\ Len(transactions) # 0
    /\ Head(transactions).id = nextId - 1
    /\ Len(accounts) = 1
    /\ storage[storageKeys.accounts].t = "arr"
    /\ Len(storage[storageKeys.accounts].v) = 2

\* a fallback that is a non-empty collection
SomeCollection == AccountsJson(<<StoredAccount>>)

\* C19: with storage available, loadFromStorage after a saveToStorage of a
\* collection that succeeded returns a value equal to that collection: the
\* text that JSON.stringify wrote for it, read by JSON.parse, is an array of
\* objects with the same members, in the same order, with the same strings
\* and numbers; for every collection the app can hold, the empty one
\* included, and whatever the fallback is.
C19_SaveThenLoadRoundTrip ==
    [][\A failing \in SUBSET {storageKeys.accounts, storageKeys.transactions} :
          (SaveCollections(failing) /\ hasStorage) =>
              \A fallback \in Fallbacks \cup {SomeCollection} :
                  /\ storageKeys.accounts \notin failing =>
                         loadFromStorage(ReadStore(storage'), hasStorage,
                                         storageKeys.accounts, fallback)
                            = AccountsJson(accounts)
                  /\ storageKeys.transactions \notin failing =>
                         loadFromStorage(ReadStore(storage'), hasStorage,
                                         storageKeys.transactions, fallback)
                            = TransactionsJson(transactions)]_vars

\* the empty account collection has been saved, as the text [], next to an
\* added transaction whose description holds quotation marks in front of the
\* default transactions: loading gives the empty collection, not the
\* fallback, and the four transactions
C19_Witness ==
    /\ pc = "idle"
    /\ hasStorage
    /\ accounts = <<>>
    /\ storage[storageKeys.accounts]
           = [t |-> "text", v |-> <<Punctuator("["), Punctuator("]")>>]
    /\ loadFromStorage(ReadStore(storage), hasStorage, storageKeys.accounts,
                       SomeCollection) = JArr(<<>>)
    /\ Len(transactions) = 4
    /\ "\"" \in {transactions[1].description[i] :
                            i \in 1..Len(transactions[1].description)}
    /\ loadFromStorage(ReadStore(storage), hasStorage, storageKeys.transactions,
                       JArr(<<>>)) = TransactionsJson(transactions)

\* the value the save effect of a key writes
ValueToStore(key) ==
    CASE key = storageKeys.accounts -> Stringify(accounts)
      [] key = storageKeys.transactions -> Stringify(transactions)
      [] key = storageKeys.theme -> theme

\* C20: write-through.  An operation that changes a collection or the theme
\* makes the save effect of its key run, and the effect run that follows (the
\* first one after the seeding included) leaves under every such key whose
\* write succeeds the value held in memory, before the next user operation;
\* a key that the operation did not change keeps its stored value.
C20_WriteThrough ==
    [][/\ (pc = "idle" /\ accounts' # accounts) => storageKeys.accounts \in dirty'
       /\ (pc = "idle" /\ transactions' # transactions)
              => storageKeys.transactions \in dirty'
       /\ (pc = "idle" /\ theme' # theme) => storageKeys.theme \in dirty'
       /\ \A failing \in SUBSET AllEffects :
              (RunEffects(failing) /\ hasStorage) =>
                  /\ pc' = "idle"
                  /\ \A key \in dirty \ failing : storage'[key] = ValueToStore(key)'
                  /\ \A key \in DOMAIN storage \ dirty : storage'[key] = storage[key]]_vars

\* the seeded collections and the theme have been written at the first
\* startup, then the theme was toggled and written
C20_Witness ==
    /\ pc = "idle"
    /\ hasStorage
    /\ theme = DarkTheme
    /\ storage[storageKeys.theme] = DarkTheme
    /\ Len(accounts) = 2
    /\ storage[storageKeys.accounts] = Stringify(accounts)
    /\ storage[storageKeys.transactions] = Stringify(transactions)

-----------------------------------------------------------------------------
(* C21..C29 *)

\* some input makes this step a submit of the account form that adds an account
AccountFormAdds ==
    /\ pc = "idle"
    /\ accountError' = ""
    /\ \E nameIn \in NameInputs, debtIn \in DebtInputs, type \in TypeInputs,
          notesIn \in NotesInputs :
           AddAccount(nameIn, debtIn, type, notesIn)

\* some input makes this step a submit of the transaction form that adds a
\* transaction
TransactionFormAdds ==
    /\ pc = "idle"
    /\ transactionError' = ""
    /\ \E amountIn \in AmountInputs, direction \in Directions,
          categoryIn \in CategoryInputs, descriptionIn \in DescriptionInputs :
           SubmitTransactionForm(FormDate, amountIn, direction, categoryIn, descriptionIn)

\* C21: add-account and add-transaction prepend.  After the operation the new
\* entity, with a fresh id, is the first element of its collection, the rest
\* is the previous collection, the same records in the same order, and the
\* other collection is unchanged.
C21_AddPrepends ==
    [][/\ AccountFormAdds =>
              /\ Len(accounts') = Len(accounts) + 1
              /\ Head(accounts').id \notin AccountIds(accounts)
              /\ Tail(accounts') = accounts
              /\ transactions' = transactions
       /\ TransactionFormAdds =>
              /\ Len(transactions') = Len(transactions) + 1
              /\ Position(transactions, Head(transactions').id) = 0
              /\ Tail(transactions') = transactions
              /\ accounts' = accounts]_vars

\* an account has just been added in front of the two seeded accounts
C21_Witness ==
    /\ pc = "effects"
    /\ dirty = {storageKeys.accounts}
    /\ Len(accounts) = 3
    /\ Head(accounts).id = nextId - 1
    /\ accounts[2].name = <<"Everyday Card">>
    /\ accounts[3].name = <<"Education Loan">>
    /\ Len(transactions) = 3

\* the ids of the records of a collection
IdsOf(seq) == {seq[k].id : k \in 1..Len(seq)}

\* C22: delete-transaction of id i removes the transaction with id i and
\* nothing else: the other transactions stay, the same records in the same
\* relative order, and the accounts are unchanged; deleting an id that no
\* transaction has changes nothing.
C22_DeleteTransactionRemovesOne ==
    [][/\ \A i \in 1..Len(transactions) :
              DeleteTransaction(transactions[i].id) =>
                  /\ IdsOf(transactions') = IdsOf(transactions) \ {transactions[i].id}
                  /\ Len(transactions') = Len(transactions) - 1
                  /\ KeepsOrderOf(transactions, transactions')
                  /\ accounts' = accounts
       /\ deleteTransaction(nextId, transactions) = transactions]_vars

\* the second of the three seeded transactions has just been deleted: the
\* first and the third remain in their order
C22_Witness ==
    /\ pc = "effects"
    /\ dirty = {storageKeys.transactions}
    /\ Len(transactions) = 2
    /\ transactions[1].amount = 2500
    /\ transactions[2].amount = 5000
    /\ Len(accounts) = 2

\* C23: the theme is light or dark; a toggle flips it, so that two toggles
\* restore it, and changes neither collection; once the effects have run the
\* theme key stores the theme in memory; a restart restores the last theme.
C23_ThemeTogglesAndPersists ==
    /\ [](Running => theme \in {LightTheme, DarkTheme})
    /\ [](pc = "idle" => storage[storageKeys.theme] = theme)
    /\ [][/\ ToggleTheme =>
                 /\ theme' # theme
                 /\ toggleTheme(theme') = theme
                 /\ accounts' = accounts
                 /\ transactions' = transactions
          /\ Restart => theme' = theme]_vars

\* the page has just been reloaded after a toggle to dark: the theme is dark
C23_Witness ==
    /\ pc = "effects"
    /\ dirty = AllEffects
    /\ theme = DarkTheme
    /\ storage[storageKeys.theme] = DarkTheme

\* C24: with every write successful, a restart gives back the account and the
\* transaction collection held before it, an emptied collection included.
C24_RestartKeepsCollections ==
    [][Restart => (accounts' = accounts /\ transactions' = transactions)]_vars

\* the trimmed texts of the entries of a legacy key that are strings with a
\* character other than a blank, in stored order; none when the key holds no
\* array
LegacyEntries(raw) ==
    IF raw.t # "arr" THEN <<>>
    ELSE LET kept == SelectSeq(raw.v,
                               LAMBDA item : /\ item.t = "str"
                                             /\ \E c \in 1..Len(item.v) : item.v[c] # " ")
         IN  [k \in 1..Len(kept) |-> Trim(kept[k].v)]

\* the state a startup would reach if both legacy keys were missing
StartupWithoutLegacy ==
    Startup([storage EXCEPT !.todos = JMissing, !.notes = JMissing], hasStorage, nextId,
            now)

\* C25: when a startup seeds the default accounts, the notes of the first one
\* list the trimmed texts of the todos entries followed by those of the notes
\* entries that are strings and not blank, in stored order; other entries and
\* a legacy key that is missing or no JSON array are skipped; the second
\* default account and the transactions are what they are without legacy data;
\* and no step writes a legacy key.
C25_LegacyImportFoldsTexts ==
    [][/\ (Boot /\ pc' = "effects" /\ accountsInitializer(storage, hasStorage, nextId).seeded) =>
              LET texts == IF hasStorage
                             THEN LegacyEntries(storage[legacyKeys.todos])
                                  \o LegacyEntries(storage[legacyKeys.notes])
                             ELSE <<>>
                  notes == accounts'[1].notes
              IN  /\ Len(accounts') = 2
                  /\ IF texts = <<>>
                       THEN notes = << <<"Track your debt and repayments here.">> >>
                       ELSE /\ Len(notes) = Len(texts) + 1
                            /\ \A k \in 1..Len(texts) : notes[k + 1] = <<"- ">> \o texts[k]
                  /\ accounts'[2] = StartupWithoutLegacy.accounts[2]
                  /\ transactions' = StartupWithoutLegacy.transactions
       /\ storage'[legacyKeys.todos] = storage[legacyKeys.todos]
       /\ storage'[legacyKeys.notes] = storage[legacyKeys.notes]]_vars

\* the default accounts have just been seeded from a storage with todos and
\* notes of the previous version: the first account lists three texts, two
\* from the todos and one from the notes
C25_Witness ==
    /\ pc = "effects"
    /\ dirty = AllEffects
    /\ storage[legacyKeys.todos] = LegacyTodos
    /\ storage[legacyKeys.notes] = LegacyNotes
    /\ storage[storageKeys.accounts] = JMissing
    /\ Len(accounts) = 2
    /\ accounts[1].notes = << <<"Imported notes from previous version:">>,
                              <<"- ", "m">>, <<"- ", "n">>, <<"- ", "p">> >>

\* C26: a startup from a state the app has stored creates default transactions
\* only together with the default accounts: every transaction it creates (one
\* with a fresh id) has the accountId of an account it creates with it, never
\* that of an account the user stored and never the empty id.
C26_DefaultTransactionsOnDefaultAccounts ==
    [][Restart =>
          \A k \in 1..Len(transactions') :
              transactions'[k].id >= nextId =>
                  /\ transactions'[k].accountId # EmptyId
                  /\ transactions'[k].accountId >= nextId
                  /\ transactions'[k].accountId \in AccountIds(accounts')]_vars

\* the stored transactions refer to stored accounts only
StoredConsistent(store) ==
    /\ store[storageKeys.accounts].t = "arr"
    /\ store[storageKeys.transactions].t = "arr"
    /\ \A k \in 1..Len(store[storageKeys.transactions].v) :
           store[storageKeys.transactions].v[k].accountId
               \in AccountIds(store[storageKeys.accounts].v)

\* C27: the effect run that follows a delete-account takes a persisted state
\* in which every stored transaction has a stored account to one that is so
\* again, whichever of its two writes fail.
C27_StoredStateConsistentAfterCascade ==
    [][\A failing \in SUBSET AllEffects :
          (/\ RunEffects(failing)
           /\ dirty = {storageKeys.accounts, storageKeys.transactions}
           /\ StoredConsistent(storage)) => StoredConsistent(storage')]_vars

\* C28: the three values of the breakdown by type add up to the total
\* remaining debt, and the debt of the highest-debt account is at most the
\* total remaining debt.
C28_BreakdownAddsUpToTotal ==
    Running =>
        /\ breakdownByType["CREDIT_CARD"] + breakdownByType["LOAN"]
               + breakdownByType["OVERDRAFT"] = totalRemainingDebt
        /\ highestDebtAccount # <<>> => highestDebtAccount[1].debt <= totalRemainingDebt

\* the only account of its type is in credit and counts 0 in the breakdown and
\* in the total, next to an account of another type that is in debt
C28_Witness ==
    /\ Running
    /\ \E i, j \in 1..Len(accounts) :
           /\ BalanceAt(i) < 0
           /\ breakdownByType[accounts[i].type] = 0
           /\ BalanceAt(j) > 0
           /\ breakdownByType[accounts[j].type] = BalanceAt(j)
    /\ highestDebtAccount # <<>>
    /\ highestDebtAccount[1].debt = totalRemainingDebt
    /\ totalRemainingDebt > 0

\* the account filter selects an account that is not in the collection
FilterOnDeletedAccount ==
    /\ Running
    /\ filters.accountId # <<>>
    /\ filters.accountId[1] \notin AccountIds(accounts)

\* C29: the account filter does not stay on a deleted account.  When the
\* selected account is deleted the filter's accountId becomes ALL once the
\* effects have run; in every settled state it is ALL or the id of an account
\* of the collection; a delete and an effect run leave the direction filter as
\* it is.
C29_FilterLeavesDeletedAccount ==
    /\ [](pc = "idle" =>
             \/ filters.accountId = <<>>
             \/ filters.accountId[1] \in AccountIds(accounts))
    /\ [][((\E id \in AccountIds(accounts) : DeleteAccount(id)) \/ RunEffects({}))
             => filters'.direction = filters.direction]_vars
    /\ [][(RunEffects({}) /\ FilterOnDeletedAccount) => filters'.accountId = <<>>]_vars
    /\ FilterOnDeletedAccount ~> (filters.accountId = <<>>)

\* the account that the filter selects has just been deleted, with the
\* direction filter on payments
C29_Witness ==
    /\ pc = "effects"
    /\ dirty = {storageKeys.accounts, storageKeys.transactions}
    /\ FilterOnDeletedAccount
    /\ filters.direction = "POSITIVE"

====
